---- MODULE Spec2Model ----
(***************************************************************************)
(* A model of the image post-processing and notification code of the      *)
(* spreadsheet-to-WhatsApp automation:                                     *)
(*   VD_Hourly_Whatsapp.py : optimize_image, crop_white_space,             *)
(*                           send_via_aisensy                              *)
(*   vd_pdf_report.py      : trim_white_space, the __main__ script         *)
(* Four specifications share the module, one per routine family:           *)
(*   Spec      optimize_image (the size-budgeted JPEG encoder)             *)
(*   SpecTrim  crop_white_space and trim_white_space                       *)
(*   SpecSend  send_via_aisensy                                            *)
(*   SpecMain  vd_pdf_report.py run as a script                            *)
(***************************************************************************)
EXTENDS Integers, Sequences, FiniteSets, TLC

VARIABLES
    \* ---- optimize_image ----
    pc,        \* position in optimize_image
    img,       \* the local img: [mode, w, h]
    src,       \* the image the caller passed (never reassigned)
    codec,     \* what the JPEG codec yields: byte length per encoding
    qi,        \* index into JPEG_QUALITIES of the next ladder attempt
    w, h,      \* the locals w, h of the downscale loop
    rnd,       \* completed iterations of "for _ in range(3)"
    data,      \* the local data: the buffer of the latest jpg_bytes call
    attempts,  \* every jpg_bytes call made so far, in order
    ret,       \* the returned buffer (NoBuffer while none)
    \* ---- crop_white_space / trim_white_space ----
    tpc, scene, out,
    \* ---- send_via_aisensy ----
    spc, urls, fields, DESTINATIONS, di, ui, sent,
    \* ---- vd_pdf_report.py __main__ ----
    mpc, env, MAIN_DESTINATIONS, mdi, raisedAt, uncaught, status, posted

encVars  == <<pc, img, src, codec, qi, w, h, rnd, data, attempts, ret>>
trimVars == <<tpc, scene, out>>
sendVars == <<spc, urls, fields, DESTINATIONS, di, ui, sent>>
mainVars == <<mpc, env, MAIN_DESTINATIONS, mdi, raisedAt, uncaught, status, posted>>
vars     == <<encVars, trimVars, sendVars, mainVars>>

Min(a, b) == IF a <= b THEN a ELSE b
Max(a, b) == IF a >= b THEN a ELSE b

(***************************************************************************)
(* optimize_image                                                          *)
(***************************************************************************)

\* Largest image side the encoder specification draws.
MaxDim == 5

TARGET_SIZE_BYTES == 4 * 1024 * 1024
QualitiesAscending == <<55, 65, 75, 85, 95>>
JPEG_QUALITIES == <<95, 85, 75, 65, 55>>

\* The quality of the downscale loop's jpg_bytes(img, 65).
FallbackQuality == 65
\* range(3)
DownscaleRounds == 3

Modes == {"RGB", "RGBA"}

\* An encoding is a quality and the number of downscale rounds applied to the
\* source image before it (0 in the ladder).
Encodings ==
    {<<JPEG_QUALITIES[i], 0>> : i \in 1..Len(JPEG_QUALITIES)}
        \cup {<<FallbackQuality, k>> : k \in 1..DownscaleRounds}

\* The lengths the codec may yield: the codec is outside the program, so every
\* length is possible; what the program reads is how each compares with the
\* budget (below it, exactly it, above it).
Sizes == {TARGET_SIZE_BYTES - 1, TARGET_SIZE_BYTES, TARGET_SIZE_BYTES + 1}

FitsStrict(n) == n < TARGET_SIZE_BYTES
\* len(data) <= TARGET_SIZE_BYTES
Fits(n) == n <= TARGET_SIZE_BYTES

\* int(d * 0.96)
Shrink(d) == (d * 96) \div 100

\* len(jpg_bytes(img, quality)) for the image after k downscale rounds
jpg_bytes(quality, k) == codec[<<quality, k>>]

\* PIL refuses to write, and to resize to, an image with a zero side.
Empty(i) == i.w < 1 \/ i.h < 1

\* A buffer is the encoding it holds and its length; NoBuffer stands for the
\* unassigned name.
NoBuffer == [quality |-> 0, round |-> 0, len |-> 0]
Buffer(quality, k, n) == [quality |-> quality, round |-> k, len |-> n]

EncInit ==
    /\ pc = "start"
    /\ src \in [mode : Modes, w : 0..MaxDim, h : 0..MaxDim]
    /\ img = src
    /\ codec \in [Encodings -> Sizes]
    /\ qi = 1
    /\ w = 0 /\ h = 0
    /\ rnd = 0
    /\ data = NoBuffer
    /\ attempts = <<>>
    /\ ret = NoBuffer

Attempt(quality, k, n) ==
    [quality |-> quality, round |-> k, w |-> img'.w, h |-> img'.h,
     size |-> n, fits |-> Fits(n)]

\* lines 67-68: if img.mode != "RGB": img = img.convert("RGB")
Convert ==
    /\ pc = "start"
    /\ img' = IF img.mode # "RGB" THEN [img EXCEPT !.mode = "RGB"] ELSE img
    /\ pc' = "ladder"
    /\ UNCHANGED <<src, codec, qi, w, h, rnd, data, attempts, ret>>
    /\ UNCHANGED <<trimVars, sendVars, mainVars>>

\* lines 70-74, one iteration of "for q in JPEG_QUALITIES"; after the last
\* one, line 76 (w, h = img.size)
LadderStep ==
    /\ pc = "ladder"
    /\ qi <= Len(JPEG_QUALITIES)
    /\ UNCHANGED <<src, codec, img, rnd>>
    /\ UNCHANGED <<trimVars, sendVars, mainVars>>
    /\ IF Empty(img)
       THEN /\ pc' = "raised"
            /\ UNCHANGED <<qi, w, h, data, attempts, ret>>
       ELSE LET n == jpg_bytes(JPEG_QUALITIES[qi], 0) IN
            /\ data' = Buffer(JPEG_QUALITIES[qi], 0, n)
            /\ attempts' = Append(attempts, Attempt(JPEG_QUALITIES[qi], 0, n))
            /\ IF Fits(n)
               THEN /\ pc' = "returned"
                    /\ ret' = data'
                    /\ UNCHANGED <<qi, w, h>>
               ELSE /\ qi' = qi + 1
                    /\ ret' = ret
                    /\ IF qi = Len(JPEG_QUALITIES)
                       THEN /\ pc' = "downscale"
                            /\ w' = img.w
                            /\ h' = img.h
                       ELSE /\ pc' = "ladder"
                            /\ UNCHANGED <<w, h>>

DownscaleStepFromSource ==
    /\ pc = "downscale"
    /\ rnd < DownscaleRounds
    /\ w' = Shrink(src.w)
    /\ h' = Shrink(src.h)
    /\ UNCHANGED <<src, codec, qi>>
    /\ UNCHANGED <<trimVars, sendVars, mainVars>>
    /\ IF w' < 1 \/ h' < 1
       THEN /\ pc' = "raised"
            /\ UNCHANGED <<img, rnd, data, attempts, ret>>
       ELSE LET n == jpg_bytes(FallbackQuality, rnd + 1) IN
            /\ img' = [img EXCEPT !.w = w', !.h = h']
            /\ data' = Buffer(FallbackQuality, rnd + 1, n)
            /\ attempts' = Append(attempts, Attempt(FallbackQuality, rnd + 1, n))
            /\ rnd' = rnd + 1
            /\ IF Fits(n)
               THEN pc' = "returned" /\ ret' = data'
               ELSE pc' = "downscale" /\ ret' = ret

\* lines 77-83, one iteration of "for _ in range(3)"
DownscaleStep ==
    /\ pc = "downscale"
    /\ rnd < DownscaleRounds
    /\ w' = Shrink(w)
    /\ h' = Shrink(h)
    /\ UNCHANGED <<src, codec, qi>>
    /\ UNCHANGED <<trimVars, sendVars, mainVars>>
    /\ IF w' < 1 \/ h' < 1
       THEN /\ pc' = "raised"
            /\ UNCHANGED <<img, rnd, data, attempts, ret>>
       ELSE LET n == jpg_bytes(FallbackQuality, rnd + 1) IN
            /\ img' = [img EXCEPT !.w = w', !.h = h']
            /\ data' = Buffer(FallbackQuality, rnd + 1, n)
            /\ attempts' = Append(attempts, Attempt(FallbackQuality, rnd + 1, n))
            /\ rnd' = rnd + 1
            /\ IF Fits(n)
               THEN pc' = "returned" /\ ret' = data'
               ELSE pc' = "downscale" /\ ret' = ret

ReturnFirstDownscale ==
    /\ pc = "downscale"
    /\ rnd = DownscaleRounds
    /\ pc' = "returned"
    /\ ret' = Buffer(FallbackQuality, 1, attempts[Len(JPEG_QUALITIES) + 1].size)
    /\ UNCHANGED <<img, src, codec, qi, w, h, rnd, data, attempts>>
    /\ UNCHANGED <<trimVars, sendVars, mainVars>>

\* line 85: return data
ReturnLast ==
    /\ pc = "downscale"
    /\ rnd = DownscaleRounds
    /\ pc' = "returned"
    /\ ret' = data
    /\ UNCHANGED <<img, src, codec, qi, w, h, rnd, data, attempts>>
    /\ UNCHANGED <<trimVars, sendVars, mainVars>>

(***************************************************************************)
(* crop_white_space (VD_Hourly_Whatsapp.py) and trim_white_space           *)
(* (vd_pdf_report.py)                                                      *)
(*                                                                         *)
(* An input image is a canvas of colour bg holding at most one rectangular *)
(* block of colour fg at box = <<x0, y0, x1, y1>> (left/top inclusive,     *)
(* right/bottom exclusive; <<0, 0, 0, 0>> for no block).  Its pixel buffer *)
(* is the function Raster; the PIL calls are computed pixel by pixel.      *)
(***************************************************************************)

\* How far the largest drawn side exceeds twice the padding.
Margin == 3

\* vd_pdf_report.py line 68
padding == 15

NoBox == <<0, 0, 0, 0>>
\* PIL's None
None == <<>>

White == <<255, 255, 255>>
Palette ==
    {White, <<0, 0, 0>>, <<155, 155, 155>>, <<154, 155, 155>>}

TrimSides == {0, 1, 2, 2 * padding + Margin}

\* The blocks drawn along one axis of length n.
Spans(n) ==
    {s \in {0, 1, padding + 1} \X {1, 2, padding + 2, n - padding - 1, n} :
        /\ s[1] < s[2] /\ s[2] <= n
        /\ s[2] \in {s[1] + 1, n - padding - 1, n}}

Scenes ==
    UNION {
        UNION {
            {[w |-> sw, h |-> sh, bg |-> c, fg |-> c, box |-> NoBox] : c \in Palette}
            \cup
            {[w |-> sw, h |-> sh, bg |-> cs[1], fg |-> cs[2],
              box |-> <<sx[1], sy[1], sx[2], sy[2]>>] :
                 cs \in {p \in Palette \X Palette : p[1] # p[2]},
                 sx \in Spans(sw), sy \in Spans(sh)}
          : sh \in TrimSides}
      : sw \in TrimSides}

InBox(b, x, y) == b[1] <= x /\ x < b[3] /\ b[2] <= y /\ y < b[4]

\* img.getpixel((x, y))
getpixel(i, x, y) == IF InBox(i.box, x, y) THEN i.fg ELSE i.bg

Pixels(i) == (0..(i.w - 1)) \X (0..(i.h - 1))
Raster(i) == [p \in Pixels(i) |-> getpixel(i, p[1], p[2])]

\* Image.new(mode, size, colour)
Image_new(i, colour) == [p \in Pixels(i) |-> colour]

AbsDiff(a, b) == IF a >= b THEN a - b ELSE b - a

\* ImageChops.difference(a, b): per channel |a - b|
difference(a, b) ==
    [p \in DOMAIN a |->
        LET ca == a[p]
            cb == b[p]
        IN  <<AbsDiff(ca[1], cb[1]), AbsDiff(ca[2], cb[2]), AbsDiff(ca[3], cb[3])>>]

\* PIL stores every channel in 0..255
Clip(v) == IF v <= 0 THEN 0 ELSE IF v >= 255 THEN 255 ELSE v

\* image.convert("L") of one RGB pixel
Luma(c) == (c[1] * 19595 + c[2] * 38470 + c[3] * 7471 + 32768) \div 65536

RECURSIVE SumRow(_, _, _)
SumRow(d, y, n) ==
    IF n = 0 THEN 0 ELSE Luma(d[<<n - 1, y>>]) + SumRow(d, y, n - 1)

\* the sum ImageStat.Stat(...) takes over the w x h pixels
RECURSIVE SumLuma(_, _, _)
SumLuma(d, wd, n) ==
    IF n = 0 THEN 0 ELSE SumRow(d, n - 1, wd) + SumLuma(d, wd, n - 1)

\* ImageEnhance.Contrast(d).enhance(factor): blend of the uniform grey image of
\* the mean luminance, int(mean + 0.5), with d, extrapolated by factor and
\* clipped.
Contrast(d, wd, ht, factor) ==
    LET count == wd * ht
        mean == (2 * SumLuma(d, wd, ht) + count) \div (2 * count)
    IN  [p \in DOMAIN d |->
            LET c == d[p] IN
            <<Clip(mean + factor * (c[1] - mean)),
              Clip(mean + factor * (c[2] - mean)),
              Clip(mean + factor * (c[3] - mean))>>]

\* ImageChops.add(a, b, scale, offset) with scale 2.0: per channel
\* clip((a + b) / 2.0 + offset)
add(a, b, offset) ==
    [p \in DOMAIN a |->
        LET ca == a[p]
            cb == b[p]
        IN  <<Clip((ca[1] + cb[1]) \div 2 + offset),
              Clip((ca[2] + cb[2]) \div 2 + offset),
              Clip((ca[3] + cb[3]) \div 2 + offset)>>]

SetMin(S) == CHOOSE m \in S : \A n \in S : m <= n
SetMax(S) == CHOOSE m \in S : \A n \in S : m >= n

getbboxInclusive(d) ==
    LET nz == {p \in DOMAIN d : d[p] # <<0, 0, 0>>} IN
    IF nz = {} THEN None
    ELSE LET xs == {p[1] : p \in nz}
             ys == {p[2] : p \in nz}
         IN  <<SetMin(xs), SetMin(ys), SetMax(xs), SetMax(ys)>>

\* Image.getbbox(): the box of the non-zero pixels, None when there are none
getbbox(d) ==
    LET nz == {p \in DOMAIN d : d[p] # <<0, 0, 0>>} IN
    IF nz = {} THEN None
    ELSE LET xs == {p[1] : p \in nz}
             ys == {p[2] : p \in nz}
         IN  <<SetMin(xs), SetMin(ys), SetMax(xs) + 1, SetMax(ys) + 1>>

\* img.crop(box): the region it holds and its size
crop(box) == [w |-> box[3] - box[1], h |-> box[4] - box[2], box |-> box]
\* "return img": the whole input
Whole(i) == [w |-> i.w, h |-> i.h, box |-> <<0, 0, i.w, i.h>>]

PadUnclamped(i, bbox) ==
    <<bbox[1] - padding, bbox[2] - padding, bbox[3] + padding, bbox[4] + padding>>

\* vd_pdf_report.py lines 68-72
Pad(i, bbox) ==
    <<Max(0, bbox[1] - padding), Max(0, bbox[2] - padding),
      Min(i.w, bbox[3] + padding), Min(i.h, bbox[4] + padding)>>

TrimInit ==
    /\ tpc = "ready"
    /\ scene \in Scenes
    /\ out = [fn |-> "", w |-> 0, h |-> 0, box |-> NoBox]

\* VD_Hourly_Whatsapp.py lines 87-92; getpixel((0, 0)) raises IndexError on an
\* image without pixels
crop_white_space ==
    /\ tpc = "ready"
    /\ UNCHANGED scene
    /\ UNCHANGED <<encVars, sendVars, mainVars>>
    /\ IF scene.w < 1 \/ scene.h < 1
       THEN /\ tpc' = "raised"
            /\ out' = [out EXCEPT !.fn = "crop_white_space"]
       ELSE LET bg == Image_new(scene, getpixel(scene, 0, 0))
                diff == difference(Raster(scene), bg)
                enhanced == Contrast(diff, scene.w, scene.h, 3)
                bbox == getbbox(enhanced)
                r == IF bbox # None THEN crop(bbox) ELSE Whole(scene)
            IN  /\ tpc' = "done"
                /\ out' = [fn |-> "crop_white_space", w |-> r.w, h |-> r.h,
                           box |-> r.box]

\* vd_pdf_report.py lines 62-74
trim_white_space ==
    /\ tpc = "ready"
    /\ UNCHANGED scene
    /\ UNCHANGED <<encVars, sendVars, mainVars>>
    /\ LET bg == Image_new(scene, White)
           diff == difference(Raster(scene), bg)
           boosted == add(diff, diff, -100)
           bbox == getbbox(boosted)
           r == IF bbox # None THEN crop(Pad(scene, bbox)) ELSE Whole(scene)
       IN  /\ tpc' = "done"
           /\ out' = [fn |-> "trim_white_space", w |-> r.w, h |-> r.h,
                      box |-> r.box]

(***************************************************************************)
(* send_via_aisensy (VD_Hourly_Whatsapp.py)                                *)
(***************************************************************************)

\* Longest url list and longest DESTINATIONS setting (in fields) drawn.
MaxUrls == 2
MaxFields == 2

UrlPool == {"u1", "u2"}
\* A comma-separated field of the DESTINATIONS setting, stripped: a number, or
\* "" for a blank field.
FieldPool == {"", "911", "912"}

SeqsUpTo(S, n) == UNION {[1..k -> S] : k \in 0..n}

\* line 34: [d.strip() for d in ....split(",") if d.strip()]
ParseDestinations(fs) == SelectSeq(fs, LAMBDA d : d # "")

\* What requests.post does: a response with a status code, or an exception
\* (connection error, timeout=30 exceeded).
PostOutcomes == {"200", "500", "raised"}

SendInit ==
    /\ spc = "call"
    /\ urls \in SeqsUpTo(UrlPool, MaxUrls)
    /\ fields \in SeqsUpTo(FieldPool, MaxFields)
    /\ DESTINATIONS = ParseDestinations(fields)
    /\ di = 1 /\ ui = 1
    /\ sent = <<>>

\* lines 177-181: the empty-list return, else the loops begin
SendEnter ==
    /\ spc = "call"
    /\ spc' = IF urls = <<>> \/ DESTINATIONS = <<>> THEN "done" ELSE "loop"
    /\ UNCHANGED <<urls, fields, DESTINATIONS, di, ui, sent>>
    /\ UNCHANGED <<encVars, trimVars, mainVars>>

PostStopOnError ==
    /\ spc = "loop"
    /\ \E o \in PostOutcomes :
          /\ sent' = Append(sent, [dest |-> DESTINATIONS[di], url |-> urls[ui],
                                   i |-> ui, result |-> o])
          /\ IF o = "raised"
             THEN spc' = "raised" /\ UNCHANGED <<di, ui>>
             ELSE IF o = "500"
             THEN spc' = "done" /\ UNCHANGED <<di, ui>>
             ELSE IF ui < Len(urls)
             THEN spc' = "loop" /\ ui' = ui + 1 /\ di' = di
             ELSE /\ ui' = 1
                  /\ di' = di + 1
                  /\ spc' = IF di < Len(DESTINATIONS) THEN "loop" ELSE "done"
    /\ UNCHANGED <<urls, fields, DESTINATIONS>>
    /\ UNCHANGED <<encVars, trimVars, mainVars>>

\* lines 182-199: one iteration of the inner loop, the request of
\* (DESTINATIONS[di], urls[ui]); the status code is logged, never tested
Post ==
    /\ spc = "loop"
    /\ \E o \in PostOutcomes :
          /\ sent' = Append(sent, [dest |-> DESTINATIONS[di], url |-> urls[ui],
                                   i |-> ui, result |-> o])
          /\ IF o = "raised"
             THEN spc' = "raised" /\ UNCHANGED <<di, ui>>
             ELSE IF ui < Len(urls)
             THEN spc' = "loop" /\ ui' = ui + 1 /\ di' = di
             ELSE /\ ui' = 1
                  /\ di' = di + 1
                  /\ spc' = IF di < Len(DESTINATIONS) THEN "loop" ELSE "done"
    /\ UNCHANGED <<urls, fields, DESTINATIONS>>
    /\ UNCHANGED <<encVars, trimVars, mainVars>>

(***************************************************************************)
(* vd_pdf_report.py run as a script (lines 200-224)                        *)
(***************************************************************************)

\* Longest DESTINATIONS list drawn for the script.
MaxMainDests == 2

\* line 204
Required ==
    {"GOOGLE_CREDENTIALS_JSON", "R2_ACCOUNT_ID", "R2_ACCESS_KEY",
     "R2_SECRET_KEY", "AISENSY_API_KEY"}

MainInit ==
    /\ mpc = "validate"
    /\ env \in SUBSET Required
    /\ MAIN_DESTINATIONS \in UNION {[1..k -> {"911", "912"}] : k \in 1..MaxMainDests}
    /\ mdi = 1
    /\ raisedAt = ""
    /\ uncaught = ""
    /\ status = -1
    /\ posted = <<>>

\* lines 203-209
Validate ==
    /\ mpc = "validate"
    /\ LET missing_vars == Required \ env IN
       IF missing_vars # {}
       THEN mpc' = "except" /\ raisedAt' = "validate"
       ELSE mpc' = "generate" /\ raisedAt' = raisedAt
    /\ UNCHANGED <<env, MAIN_DESTINATIONS, mdi, uncaught, status, posted>>
    /\ UNCHANGED <<encVars, trimVars, sendVars>>

\* line 212: generate_dynamic_single_page_clean() returns or raises
generate_dynamic_single_page_clean ==
    /\ mpc = "generate"
    /\ \/ mpc' = "upload" /\ raisedAt' = raisedAt
       \/ mpc' = "except" /\ raisedAt' = "generate"
    /\ UNCHANGED <<env, MAIN_DESTINATIONS, mdi, uncaught, status, posted>>
    /\ UNCHANGED <<encVars, trimVars, sendVars>>

\* line 214: upload_to_r2(pdf_buffer) returns or raises
upload_to_r2 ==
    /\ mpc = "upload"
    /\ \/ mpc' = "send" /\ raisedAt' = raisedAt
       \/ mpc' = "except" /\ raisedAt' = "upload"
    /\ UNCHANGED <<env, MAIN_DESTINATIONS, mdi, uncaught, status, posted>>
    /\ UNCHANGED <<encVars, trimVars, sendVars>>

\* line 216, lines 178-198: one request of send_to_aisensy's loop
send_to_aisensy ==
    /\ mpc = "send"
    /\ \E o \in PostOutcomes :
          /\ posted' = Append(posted, [dest |-> MAIN_DESTINATIONS[mdi], result |-> o])
          /\ IF o = "raised"
             THEN mpc' = "except" /\ raisedAt' = "send" /\ mdi' = mdi
             ELSE /\ mdi' = mdi + 1
                  /\ raisedAt' = raisedAt
                  /\ mpc' = IF mdi < Len(MAIN_DESTINATIONS) THEN "send" ELSE "completed"
    /\ UNCHANGED <<env, MAIN_DESTINATIONS, uncaught, status>>
    /\ UNCHANGED <<encVars, trimVars, sendVars>>

\* line 218: the closing print; the try block ends without an exception
Completed ==
    /\ mpc = "completed"
    /\ mpc' = "after_try"
    /\ UNCHANGED <<env, MAIN_DESTINATIONS, mdi, raisedAt, uncaught, status, posted>>
    /\ UNCHANGED <<encVars, trimVars, sendVars>>

\* lines 219-223: except Exception: ... exit(1)
ExceptHandler ==
    /\ mpc = "except"
    /\ mpc' = "exited"
    /\ status' = 1
    /\ UNCHANGED <<env, MAIN_DESTINATIONS, mdi, raisedAt, uncaught, posted>>
    /\ UNCHANGED <<encVars, trimVars, sendVars>>

\* line 224: the module ends with the bare name fy27_orders, bound nowhere;
\* evaluating it raises NameError outside the try block, and the interpreter
\* ends with status 1
TrailingName ==
    /\ mpc = "after_try"
    /\ mpc' = "exited"
    /\ uncaught' = "NameError"
    /\ status' = 1
    /\ UNCHANGED <<env, MAIN_DESTINATIONS, mdi, raisedAt, posted>>
    /\ UNCHANGED <<encVars, trimVars, sendVars>>

(***************************************************************************)
(* The specifications                                                      *)
(***************************************************************************)

EncIdle ==
    /\ pc = "idle" /\ src = [mode |-> "RGB", w |-> 0, h |-> 0] /\ img = src
    /\ codec = <<>> /\ qi = 0 /\ w = 0 /\ h = 0 /\ rnd = 0
    /\ data = NoBuffer /\ attempts = <<>> /\ ret = NoBuffer
TrimIdle == tpc = "idle" /\ scene = <<>> /\ out = <<>>
SendIdle ==
    /\ spc = "idle" /\ urls = <<>> /\ fields = <<>> /\ DESTINATIONS = <<>>
    /\ di = 0 /\ ui = 0 /\ sent = <<>>
MainIdle ==
    /\ mpc = "idle" /\ env = {} /\ MAIN_DESTINATIONS = <<>> /\ mdi = 0 /\ raisedAt = ""
    /\ uncaught = "" /\ status = -1 /\ posted = <<>>

Init == EncInit /\ TrimIdle /\ SendIdle /\ MainIdle
Next == Convert \/ LadderStep \/ DownscaleStep \/ ReturnLast
Spec == Init /\ [][Next]_vars

InitTrim == EncIdle /\ TrimInit /\ SendIdle /\ MainIdle
NextTrim == crop_white_space \/ trim_white_space
SpecTrim == InitTrim /\ [][NextTrim]_vars

InitSend == EncIdle /\ TrimIdle /\ SendInit /\ MainIdle
NextSend == SendEnter \/ Post
SpecSend == InitSend /\ [][NextSend]_vars

InitMain == EncIdle /\ TrimIdle /\ SendIdle /\ MainInit
NextMain ==
    \/ Validate \/ generate_dynamic_single_page_clean \/ upload_to_r2 \/ send_to_aisensy \/ Completed
    \/ ExceptHandler \/ TrailingName
SpecMain == InitMain /\ [][NextMain]_vars

(***************************************************************************)
(* Properties of optimize_image (checked under Spec)                       *)
(***************************************************************************)

Terminated == pc \in {"returned", "raised"}

\* The ladder and the scale factor as the specification states them.
Ladder == <<95, 85, 75, 65, 55>>
Floor096(d) == (96 * d) \div 100
RECURSIVE Compound(_, _)
Compound(d, k) == IF k = 0 THEN d ELSE Floor096(Compound(d, k - 1))

Over(n) == n > TARGET_SIZE_BYTES

\* C1: for a source image with both sides >= 1 whose quality-55 encoding at
\* the original dimensions is no longer than the budget, optimize_image ends
\* by returning a buffer, and that buffer is no longer than the budget.
C1_WithinBudget ==
    (Terminated /\ ~Empty(src) /\ ~Over(codec[<<55, 0>>]))
        => (pc = "returned" /\ ret.len > 0 /\ ret.len <= TARGET_SIZE_BYTES)

\* C1 witness: the call returned the quality-55 encoding itself, after the four
\* higher qualities exceeded the budget, with a length exactly the budget.
C1_Witness ==
    /\ pc = "returned"
    /\ Len(attempts) = 5
    /\ ret = [quality |-> 55, round |-> 0, len |-> TARGET_SIZE_BYTES]
    /\ \A j \in 1..4 : Over(attempts[j].size)

\* C2: the ladder is tried in the order 95, 85, 75, 65, 55 at the original
\* dimensions, and the call returns at the first quality that fits: when
\* quality Ladder[i] is the first whose encoding fits, the call ends having made
\* exactly the attempts Ladder[1..i], all at the source dimensions, and returns
\* the encoding at Ladder[i]; at every moment the attempts made so far follow
\* the ladder order.
C2_FirstFit ==
    /\ \A j \in 1..Min(Len(attempts), 5) :
          /\ attempts[j].quality = Ladder[j]
          /\ attempts[j].round = 0
          /\ attempts[j].w = src.w /\ attempts[j].h = src.h
          /\ attempts[j].size = codec[<<Ladder[j], 0>>]
    /\ \A i \in 1..5 :
          ( /\ Terminated /\ ~Empty(src)
            /\ ~Over(codec[<<Ladder[i], 0>>])
            /\ \A j \in 1..(i - 1) : Over(codec[<<Ladder[j], 0>>]) )
          => /\ pc = "returned"
             /\ Len(attempts) = i
             /\ ret = [quality |-> Ladder[i], round |-> 0,
                       len |-> codec[<<Ladder[i], 0>>]]
             /\ rnd = 0

\* C2 witness: qualities 95 and 85 exceeded the budget, 75 fit and was
\* returned, although 55 would have fit too.
C2_Witness ==
    /\ pc = "returned"
    /\ Len(attempts) = 3
    /\ ret.quality = 75
    /\ Over(attempts[1].size) /\ Over(attempts[2].size)
    /\ ~Over(codec[<<55, 0>>])

\* C3: for an image with both sides >= 1 and a budget no ladder or downscale
\* encoding meets, optimize_image ends by returning a non-empty buffer after
\* exactly 5 + 3 = 8 encodings.
C3_EightEncodings ==
    (Terminated /\ ~Empty(src) /\ \A e \in Encodings : Over(codec[e]))
        => (pc = "returned" /\ Len(attempts) = 8 /\ ret.len > 0)

\* C4: a returned buffer is the one measured last, and it exceeds the budget
\* only when all 5 ladder and all 3 downscale encodings exceeded it, and then
\* it is the third downscale encoding.
C4_MeasuredOrBestEffort ==
    pc = "returned" =>
        /\ Len(attempts) >= 1
        /\ LET a == attempts[Len(attempts)] IN
              /\ ret = [quality |-> a.quality, round |-> a.round, len |-> a.size]
              /\ a.fits = (a.size <= TARGET_SIZE_BYTES)
        /\ Over(ret.len) =>
              /\ Len(attempts) = 8
              /\ \A j \in 1..8 : Over(attempts[j].size)
              /\ ret.quality = 65 /\ ret.round = 3

\* C4 witness: a best-effort return: all eight encodings were over budget and
\* the buffer returned is the third downscale encoding.
C4_Witness ==
    /\ pc = "returned"
    /\ Over(ret.len)
    /\ Len(attempts) = 8
    /\ ret = [quality |-> 65, round |-> 3, len |-> attempts[8].size]
    /\ attempts[8].w = Compound(src.w, 3)

\* C5: optimize_image raises only for a source image with a zero side.
C5_RaisesOnlyOnEmptySource ==
    pc = "raised" => Empty(src)

\* C8: a downscale encoding happens only after all five ladder encodings
\* exceeded the budget; round k encodes at quality 65 the image whose sides are
\* floor(0.96 * d) applied k times to the source sides; and every attempt but
\* the latest exceeded the budget, so the loop stops at the first round that
\* fits.
C8_DownscaleRounds ==
    /\ \A i \in 1..Len(attempts) :
          i > 5 =>
             /\ \A j \in 1..5 : Over(attempts[j].size)
             /\ attempts[i].quality = 65
             /\ attempts[i].round = i - 5
             /\ attempts[i].w = Compound(src.w, i - 5)
             /\ attempts[i].h = Compound(src.h, i - 5)
             /\ attempts[i].size = codec[<<65, i - 5>>]
             /\ img.w = Compound(src.w, rnd) /\ img.h = Compound(src.h, rnd)
    /\ \A i \in 1..(Len(attempts) - 1) : Over(attempts[i].size)
    /\ Len(attempts) <= 8
    /\ (pc = "returned" /\ ~Over(ret.len) /\ ret.round > 0)
          => Len(attempts) = 5 + ret.round

\* C8 witness: the second downscale round fit and was returned, on a 5 x 4
\* source: 5 -> 4 -> 3 and 4 -> 3 -> 2.
C8_Witness ==
    /\ pc = "returned"
    /\ src.w = 5 /\ src.h = 4
    /\ Len(attempts) = 7
    /\ attempts[6].w = 4 /\ attempts[6].h = 3
    /\ attempts[7].w = 3 /\ attempts[7].h = 2
    /\ ret.round = 2 /\ ~Over(ret.len)

(***************************************************************************)
(* Properties of the trimmers (checked under SpecTrim)                     *)
(***************************************************************************)

TrimEnded == tpc \in {"done", "raised"}

\* Every pixel of the scene has one colour.
Uniform(s) == s.box = NoBox \/ s.box = <<0, 0, s.w, s.h>>
\* The scene holds a block of a colour other than the background's.
HasBlock(s) == s.box # NoBox /\ s.fg # s.bg

\* The block grown by p on each side, clamped to the image.
Expanded(s, p) ==
    <<Max(0, s.box[1] - p), Max(0, s.box[2] - p),
      Min(s.w, s.box[3] + p), Min(s.h, s.box[4] + p)>>

\* C6: on a uniform image with at least one pixel, of any colour, either
\* trimmer returns, without raising, an image of the input's width and height.
C6_UniformKeepsSize ==
    (TrimEnded /\ Uniform(scene) /\ scene.w >= 1 /\ scene.h >= 1)
        => (tpc = "done" /\ out.w = scene.w /\ out.h = scene.h)

\* C6 witness: trim_white_space returned on a uniform black image of the
\* largest size, where every pixel is content and the padded box is clamped on
\* all four sides.
C6_Witness ==
    /\ tpc = "done"
    /\ out.fn = "trim_white_space"
    /\ Uniform(scene) /\ scene.bg = <<0, 0, 0>> /\ scene.box = NoBox
    /\ scene.w > 2 * padding /\ scene.h > 2 * padding
    /\ out.w = scene.w /\ out.h = scene.h

\* C7 as stated: for any background colour and any other block colour,
\* crop_white_space returns exactly the block and trim_white_space returns the
\* block grown by 15 on each side, clamped to the image.
C7_AnyColours ==
    (tpc = "done" /\ HasBlock(scene)) =>
        /\ out.fn = "crop_white_space" => out.box = scene.box
        /\ out.fn = "trim_white_space" => out.box = Expanded(scene, 15)

\* A pixel trim_white_space counts as content: some channel is more than 100
\* below white's 255.
Dark(c) == \E k \in 1..3 : 255 - c[k] > 100

\* C7 as amended: crop_white_space returns exactly the block when the pixel at
\* (0,0), its background sample, lies outside the block; trim_white_space
\* returns the block grown by 15 on each side, clamped to the image, when no
\* channel of the background is more than 100 below white and some channel of
\* the block is.
C7_BlockRecovered ==
    (TrimEnded /\ HasBlock(scene)) =>
        /\ tpc = "done"
        /\ (out.fn = "crop_white_space" /\ ~InBox(scene.box, 0, 0)) =>
              /\ out.box = scene.box
              /\ out.w = scene.box[3] - scene.box[1]
              /\ out.h = scene.box[4] - scene.box[2]
        /\ (out.fn = "trim_white_space" /\ ~Dark(scene.bg) /\ Dark(scene.fg)) =>
              /\ out.box = Expanded(scene, 15)
              /\ out.w = out.box[3] - out.box[1]
              /\ out.h = out.box[4] - out.box[2]

\* C7 witness: trim_white_space on a white canvas with a one-pixel black block
\* far enough from every edge that no side of the padded box is clamped.
C7_Witness ==
    /\ tpc = "done"
    /\ out.fn = "trim_white_space"
    /\ scene.bg = White /\ scene.fg = <<0, 0, 0>>
    /\ scene.box = <<16, 16, 17, 17>>
    /\ out.box = <<1, 1, 32, 32>>
    /\ out.w = 31 /\ out.h = 31
    /\ scene.w > 32 /\ scene.h > 32

(***************************************************************************)
(* Properties of send_via_aisensy (checked under SpecSend)                 *)
(***************************************************************************)

\* The (destination, url, index) of every request, destination-major.
AllPairs ==
    [k \in 1..(Len(DESTINATIONS) * Len(urls)) |->
        <<DESTINATIONS[((k - 1) \div Len(urls)) + 1], urls[((k - 1) % Len(urls)) + 1],
          ((k - 1) % Len(urls)) + 1>>]

Issued == [k \in 1..Len(sent) |-> <<sent[k].dest, sent[k].url, sent[k].i>>]

\* C9 as stated: the call ends having issued exactly one request per
\* (destination, url) pair, destination-major, and none for an empty url list.
C9_EveryPairSent ==
    spc \in {"done", "raised"} =>
        IF urls = <<>> THEN sent = <<>> ELSE Issued = AllPairs

\* C9 as amended: the requests issued are always a prefix of the
\* destination-major sequence of (destination, url) pairs; when
\* send_via_aisensy returns, they are the whole sequence (none for an empty url
\* list), whatever status codes came back; the call stops early only when
\* requests.post itself raises, and then no later request is issued.
C9_PrefixAndComplete ==
    /\ Len(sent) <= Len(AllPairs)
    /\ \A k \in 1..Len(sent) : Issued[k] = AllPairs[k]
    /\ \A k \in 1..(Len(sent) - 1) : sent[k].result # "raised"
    /\ spc = "done" => (IF urls = <<>> THEN sent = <<>> ELSE Issued = AllPairs)
    /\ spc = "raised" => sent[Len(sent)].result = "raised"

\* C9 witness: two destinations and two urls, four requests in
\* destination-major order, the first answered with a failure status.
C9_Witness ==
    /\ spc = "done"
    /\ Len(DESTINATIONS) = 2 /\ Len(urls) = 2
    /\ DESTINATIONS[1] # DESTINATIONS[2] /\ urls[1] # urls[2]
    /\ Len(sent) = 4
    /\ sent[1].result = "500"
    /\ sent[2].dest = DESTINATIONS[1] /\ sent[2].url = urls[2]
    /\ sent[3].dest = DESTINATIONS[2] /\ sent[3].url = urls[1]

(***************************************************************************)
(* Properties of the vd_pdf_report.py script (checked under SpecMain)      *)
(***************************************************************************)

\* C10: the script ends with status 0 when validation, PDF generation, the
\* upload and every send completed without raising, and with a failure status
\* only when one of them raised.
C10_ExitStatus ==
    mpc = "exited" => (status = 0 <=> raisedAt = "")
====
